---------------------------- MODULE Spec2Model ----------------------------
(***************************************************************************)
(* Model of the VehicleMap component (src/src/components/VehicleMap.jsx):  *)
(* the route fetch, the playback effect with its setInterval callback, and *)
(* the Play/Pause, Reset and speed-slider handlers.                        *)
(*                                                                         *)
(* Representation.                                                         *)
(*  - A coordinate is a pair <<lat, lng>> in units of 1/50 degree, so that *)
(*    the linear interpolation at progress k * 0.02 is an exact integer.   *)
(*  - progressRef holds the number k of additions of step = 0.02 made in   *)
(*    the current segment; the IEEE double reached after k additions is    *)
(*    >= 1 exactly when k >= 50 (the 50th sum is 1.0000000000000004).      *)
(*  - speed is held in halves (the slider's step is 0.5): speed = 2 is the *)
(*    multiplier 1.0.                                                      *)
(*  - getDistance / getBearing are tabulated for the waypoints of Coords.  *)
(*  - A user event, the state updates of its handler, the re-render and    *)
(*    the effect cleanup/setup that the re-render triggers form one step   *)
(*    (React flushes the effects of a discrete event synchronously).       *)
(***************************************************************************)
EXTENDS Integers, Sequences, FiniteSets, TLC

(* ------------------------------ bounds -------------------------------- *)
\* largest number of waypoints in the fetched document
MaxWaypoints == 2
\* the count of completion alerts since the last reset saturates here
MaxAlerts == 2

(* ------------------------- program constants -------------------------- *)
\* step = 0.02: fifty additions bring progressRef to >= 1
StepsPerSegment == 50
\* interval = 50 / speed (milliseconds)
BaseInterval == 50
\* useState(1) for speed, in halves
InitialSpeed == 2
\* <input type="range" min="0.5" max="5" step="0.5">, in halves
SliderMin == 1
SliderMax == 10

\* useRef(null)
Null == 0
\* the value of formatted[0] for an empty document
Undef == <<>>

\* waypoints the fetched document may hold (1/50 degree units)
Coords == { <<0, 50>>, <<50, 0>> }

\* values a change event of the slider may be asked to carry (halves);
\* num = FALSE stands for a text that is not a number
RawValues ==
  { [num |-> TRUE, val |-> v] : v \in {0, 2, 4} } \cup { [num |-> FALSE, val |-> 0] }

VARIABLES
  fetchState,       \* "pending" | "done" | "failed": the promise of fetch()
  mounted,          \* FALSE once a render has thrown and React unmounted the tree
  route,            \* useState([])
  currentIndex,     \* useState(0)
  isPlaying,        \* useState(false)
  visitedPath,      \* useState([])
  currentPos,       \* useState([0, 0])
  speed,            \* useState(1), in halves
  distanceCovered,  \* useState(0), in 1/1000 metre
  intervalRef,      \* useRef(null): id of the last interval created
  segmentIndexRef,  \* useRef(0)
  progressRef,      \* useRef(0), in steps of 0.02
  timers,           \* the browser's active intervals: set of [id, period]
  carRotation,      \* degrees of the rotate() transform of #car-icon
  alerts,           \* number of alert() calls since the last reset (saturating)
  last,             \* the last operation and the playback values it started from
  resume            \* values held at the last pause, until the first tick after it

vars == << fetchState, mounted, route, currentIndex, isPlaying, visitedPath,
           currentPos, speed, distanceCovered, intervalRef, segmentIndexRef,
           progressRef, timers, carRotation, alerts, last, resume >>

(* ------------------------------ helpers ------------------------------- *)
Min(a, b) == IF a < b THEN a ELSE b
Max(a, b) == IF a > b THEN a ELSE b

\* getDistance(a, b) in kilometres, fixed point with three decimals
getDistance(a, b) ==
  LET dLat == IF a[1] > b[1] THEN a[1] - b[1] ELSE b[1] - a[1]
      dLon == IF a[2] > b[2] THEN a[2] - b[2] ELSE b[2] - a[2]
      lat  == Max(a[1], b[1])
  IN  CASE dLat = 0  /\ dLon = 0               -> 0
        [] dLat = 50 /\ dLon = 0               -> 111195
        [] dLat = 0  /\ dLon = 50 /\ lat = 0   -> 111195
        [] dLat = 0  /\ dLon = 50 /\ lat = 50  -> 111178
        [] OTHER                               -> 157249

\* getBearing(A, B) in whole degrees, in [0, 360)
getBearing(A, B) ==
  LET dLat == B[1] - A[1]
      dLon == B[2] - A[2]
  IN  CASE dLat = 0 /\ dLon = 0 -> 0
        [] dLat > 0 /\ dLon = 0 -> 0
        [] dLat < 0 /\ dLon = 0 -> 180
        [] dLat = 0 /\ dLon > 0 -> 90
        [] dLat = 0 /\ dLon < 0 -> 270
        [] dLat > 0 /\ dLon > 0 -> 45
        [] dLat > 0 /\ dLon < 0 -> 315
        [] dLat < 0 /\ dLon > 0 -> 135
        [] OTHER                -> 225

\* start + (end - start) * progress, progress = k * 0.02
Interpolate(start, end, k) ==
  << start[1] + ((end[1] - start[1]) * k) \div StepsPerSegment,
     start[2] + ((end[2] - start[2]) * k) \div StepsPerSegment >>

\* const interval = 50 / speed; setInterval truncates the delay to whole ms
\* (a delay that is not a positive number is taken as 0)
Interval(spd) == IF spd <= 0 THEN 0 ELSE (BaseInterval * 2) \div spd

\* a slider without the min attribute: numbers are only bounded above
SanitizeNoMin(raw) ==
  IF ~raw.num THEN (SliderMin + SliderMax + 1) \div 2
  ELSE Min(SliderMax, raw.val)

\* the value a range input holds after it is asked to take raw: a text that
\* is not a number gives the default (the midpoint, rounded up to the step
\* grid), a number is clamped to [min, max]
Sanitize(raw) ==
  IF ~raw.num THEN (SliderMin + SliderMax + 1) \div 2
  ELSE Max(SliderMin, Min(SliderMax, raw.val))

\* clearInterval(id)
ClearInterval(ts, id) == { t \in ts : t.id # id }

\* the id setInterval returns: one that names no active interval and
\* differs from the id held in intervalRef
NewId(ts, ref) ==
  CHOOSE i \in 1..(Cardinality(ts) + 2) :
    /\ i # ref
    /\ \A t \in ts : t.id # i
    /\ \A j \in 1..(i - 1) : j = ref \/ \E t \in ts : t.id = j

\* the effect without its cleanup: return () => clearInterval(...) left out
EffectTimersNoCleanup(ts, ref, playing, spd, rt) ==
  IF playing /\ Len(rt) > 1
  THEN ts \cup { [id |-> NewId(ts, ref), period |-> Interval(spd)] }
  ELSE ts

\* the playback effect re-run: the cleanup of the previous run
\* (clearInterval(intervalRef.current)), then the body, which creates an
\* interval when isPlaying && route.length > 1
EffectTimers(ts, ref, playing, spd, rt) ==
  LET cleared == ClearInterval(ts, ref)
  IN  IF playing /\ Len(rt) > 1
      THEN cleared \cup { [id |-> NewId(cleared, ref), period |-> Interval(spd)] }
      ELSE cleared

EffectRef(ts, ref, playing, spd, rt) ==
  IF playing /\ Len(rt) > 1 THEN NewId(ClearInterval(ts, ref), ref) ELSE ref

\* the render body throws on currentPos[0] when the guard route.length === 0
\* lets an undefined position through
RenderThrows(rt, pos) == Len(rt) # 0 /\ pos = Undef

\* the render without if (route.length === 0) return <p>Loading route...</p>
RenderedNoGuard == mounted

\* the control panel is on screen: mounted and past the loading guard
Rendered == mounted /\ Len(route) # 0

\* the fetched documents: lists of at most MaxWaypoints waypoints
Documents == UNION { [1..n -> Coords] : n \in 0..MaxWaypoints }

\* the argument recorded for an operation that takes none
NoArg == [num |-> FALSE, val |-> -1]

Record(op, arg) ==
  [op |-> op, arg |-> arg, seg |-> segmentIndexRef, prog |-> progressRef,
   playing |-> isPlaying, speed |-> speed]

NoResume == [st |-> "none", seg |-> 0, prog |-> 0]

(* ------------------------------ initial ------------------------------- *)
Init ==
  /\ fetchState = "pending"
  /\ mounted = TRUE
  /\ route = << >>
  /\ currentIndex = 0
  /\ isPlaying = FALSE
  /\ visitedPath = << >>
  /\ currentPos = <<0, 0>>
  /\ speed = InitialSpeed
  /\ distanceCovered = 0
  /\ intervalRef = Null
  /\ segmentIndexRef = 0
  /\ progressRef = 0
  /\ timers = {}
  /\ carRotation = 0
  /\ alerts = 0
  /\ last = [op |-> "init", arg |-> NoArg, seg |-> 0, prog |-> 0,
             playing |-> FALSE, speed |-> InitialSpeed]
  /\ resume = NoResume

(* ------------------------------ actions ------------------------------- *)
\* a loader that does not close the loop: roundTrip = formatted
FetchResolveOpen(data) ==
  /\ fetchState = "pending"
  /\ mounted
  /\ LET formatted == data
         first     == IF Len(formatted) > 0 THEN formatted[1] ELSE Undef
         roundTrip == formatted
     IN  /\ route' = roundTrip
         /\ visitedPath' = << first >>
         /\ currentPos' = first
         /\ mounted' = ~RenderThrows(roundTrip, first)
         /\ timers' = IF RenderThrows(roundTrip, first)
                      THEN ClearInterval(timers, intervalRef)
                      ELSE EffectTimers(timers, intervalRef, isPlaying, speed, roundTrip)
         /\ intervalRef' = IF RenderThrows(roundTrip, first)
                           THEN intervalRef
                           ELSE EffectRef(timers, intervalRef, isPlaying, speed, roundTrip)
  /\ fetchState' = "done"
  /\ last' = Record("load", NoArg)
  /\ UNCHANGED << currentIndex, isPlaying, speed, distanceCovered,
                  segmentIndexRef, progressRef, carRotation, alerts, resume >>

\* fetch("/dummy-route.json") resolves with the document data
FetchResolve(data) ==
  /\ fetchState = "pending"
  /\ mounted
  /\ LET formatted == data
         first     == IF Len(formatted) > 0 THEN formatted[1] ELSE Undef
         roundTrip == Append(formatted, first)
     IN  /\ route' = roundTrip
         /\ visitedPath' = << roundTrip[1] >>
         /\ currentPos' = roundTrip[1]
         /\ mounted' = ~RenderThrows(roundTrip, roundTrip[1])
         /\ timers' = IF RenderThrows(roundTrip, roundTrip[1])
                      THEN ClearInterval(timers, intervalRef)
                      ELSE EffectTimers(timers, intervalRef, isPlaying, speed, roundTrip)
         /\ intervalRef' = IF RenderThrows(roundTrip, roundTrip[1])
                           THEN intervalRef
                           ELSE EffectRef(timers, intervalRef, isPlaying, speed, roundTrip)
  /\ fetchState' = "done"
  /\ last' = Record("load", NoArg)
  /\ UNCHANGED << currentIndex, isPlaying, speed, distanceCovered,
                  segmentIndexRef, progressRef, carRotation, alerts, resume >>

\* the fetch rejects (or its body is not JSON): nothing handles it
FetchReject ==
  /\ fetchState = "pending"
  /\ mounted
  /\ fetchState' = "failed"
  /\ last' = Record("loadFailed", NoArg)
  /\ UNCHANGED << mounted, route, currentIndex, isPlaying, visitedPath, currentPos,
                  speed, distanceCovered, intervalRef, segmentIndexRef, progressRef,
                  timers, carRotation, alerts, resume >>

\* onClick={() => setIsPlaying(!isPlaying)}, then the effect re-run
TogglePlaying ==
  /\ Rendered
  /\ isPlaying' = ~isPlaying
  /\ timers' = EffectTimers(timers, intervalRef, ~isPlaying, speed, route)
  /\ intervalRef' = EffectRef(timers, intervalRef, ~isPlaying, speed, route)
  /\ UNCHANGED << fetchState, mounted, route, currentIndex, visitedPath, currentPos,
                  speed, distanceCovered, segmentIndexRef, progressRef,
                  carRotation, alerts >>

\* the button reads "Play"
Play ==
  /\ ~isPlaying
  /\ TogglePlaying
  /\ last' = Record("play", NoArg)
  /\ resume' = IF resume.st = "paused" THEN [resume EXCEPT !.st = "resumed"] ELSE NoResume

\* a pause that rewinds the refs, as if they were re-created with the effect
PauseRewinds ==
  /\ isPlaying
  /\ Rendered
  /\ isPlaying' = FALSE
  /\ timers' = EffectTimers(timers, intervalRef, FALSE, speed, route)
  /\ intervalRef' = EffectRef(timers, intervalRef, FALSE, speed, route)
  /\ segmentIndexRef' = 0
  /\ progressRef' = 0
  /\ last' = Record("pause", NoArg)
  /\ resume' = [st |-> "paused", seg |-> segmentIndexRef, prog |-> progressRef]
  /\ UNCHANGED << fetchState, mounted, route, currentIndex, visitedPath, currentPos,
                  speed, distanceCovered, carRotation, alerts >>

\* the button reads "Pause"
Pause ==
  /\ isPlaying
  /\ TogglePlaying
  /\ last' = Record("pause", NoArg)
  /\ resume' = [st |-> "paused", seg |-> segmentIndexRef, prog |-> progressRef]

\* a reset that leaves progressRef and distanceCovered as they are
ResetKeepsProgress ==
  /\ Rendered
  /\ isPlaying' = FALSE
  /\ timers' = LET cleared == ClearInterval(timers, intervalRef)
               IN  IF isPlaying
                   THEN EffectTimers(cleared, intervalRef, FALSE, speed, route)
                   ELSE cleared
  /\ segmentIndexRef' = 0
  /\ currentIndex' = 0
  /\ visitedPath' = << route[1] >>
  /\ currentPos' = route[1]
  /\ carRotation' = 0
  /\ alerts' = 0
  /\ last' = Record("reset", NoArg)
  /\ resume' = NoResume
  /\ UNCHANGED << fetchState, mounted, route, speed, intervalRef, progressRef,
                  distanceCovered >>

\* the Reset button
Reset ==
  /\ Rendered
  /\ isPlaying' = FALSE
  /\ timers' = LET cleared == ClearInterval(timers, intervalRef)
               IN  IF isPlaying
                   THEN EffectTimers(cleared, intervalRef, FALSE, speed, route)
                   ELSE cleared
  /\ segmentIndexRef' = 0
  /\ progressRef' = 0
  /\ currentIndex' = 0
  /\ visitedPath' = << route[1] >>
  /\ currentPos' = route[1]
  /\ distanceCovered' = 0
  /\ carRotation' = 0
  /\ alerts' = 0
  /\ last' = Record("reset", NoArg)
  /\ resume' = NoResume
  /\ UNCHANGED << fetchState, mounted, route, speed, intervalRef >>

\* speed missing from the effect's dependency list: the interval is kept
SetSpeedNoRestart(raw) ==
  /\ Rendered
  /\ speed' = Sanitize(raw)
  /\ last' = Record("setSpeed", raw)
  /\ UNCHANGED << fetchState, mounted, route, currentIndex, isPlaying, visitedPath,
                  currentPos, distanceCovered, intervalRef, segmentIndexRef,
                  progressRef, timers, carRotation, alerts, resume >>

\* onChange={(e) => setSpeed(parseFloat(e.target.value))}: the slider is
\* asked to take raw; the effect re-runs when speed changed
SetSpeed(raw) ==
  /\ Rendered
  /\ LET value == Sanitize(raw)
     IN  /\ speed' = value
         /\ timers' = IF value # speed
                      THEN EffectTimers(timers, intervalRef, isPlaying, value, route)
                      ELSE timers
         /\ intervalRef' = IF value # speed
                           THEN EffectRef(timers, intervalRef, isPlaying, value, route)
                           ELSE intervalRef
  /\ last' = Record("setSpeed", raw)
  /\ UNCHANGED << fetchState, mounted, route, currentIndex, isPlaying, visitedPath,
                  currentPos, distanceCovered, segmentIndexRef, progressRef,
                  carRotation, alerts, resume >>

\* const end = route[i + 1]; !end
EndMissing == segmentIndexRef + 2 > Len(route)

\* a terminal tick that starts the round trip over
TickTerminalRestarts(t) ==
  /\ t \in timers
  /\ EndMissing
  /\ timers' = ClearInterval(timers, intervalRef)
  /\ alerts' = Min(alerts + 1, MaxAlerts)
  /\ segmentIndexRef' = 0
  /\ currentIndex' = 0
  /\ distanceCovered' = 0
  /\ last' = Record("tickEnd", NoArg)
  /\ resume' = NoResume
  /\ UNCHANGED << fetchState, mounted, route, isPlaying, visitedPath,
                  currentPos, speed, intervalRef, progressRef, carRotation >>

\* a terminal tick that first moves the car onto the closing waypoint
TickTerminalSnapsToEnd(t) ==
  /\ t \in timers
  /\ EndMissing
  /\ timers' = ClearInterval(timers, intervalRef)
  /\ alerts' = Min(alerts + 1, MaxAlerts)
  /\ currentPos' = route[Len(route)]
  /\ visitedPath' = Append(visitedPath, route[Len(route)])
  /\ last' = Record("tickEnd", NoArg)
  /\ resume' = NoResume
  /\ UNCHANGED << fetchState, mounted, route, currentIndex, isPlaying, speed,
                  distanceCovered, intervalRef, segmentIndexRef, progressRef,
                  carRotation >>

\* the interval callback finds no end point
TickTerminal(t) ==
  /\ t \in timers
  /\ EndMissing
  /\ timers' = ClearInterval(timers, intervalRef)
  /\ alerts' = Min(alerts + 1, MaxAlerts)
  /\ last' = Record("tickEnd", NoArg)
  /\ resume' = NoResume
  /\ UNCHANGED << fetchState, mounted, route, currentIndex, isPlaying, visitedPath,
                  currentPos, speed, distanceCovered, intervalRef, segmentIndexRef,
                  progressRef, carRotation >>

\* a rollover that advances the segment but forgets progressRef.current = 0
TickAdvanceNoProgressReset(t) ==
  /\ t \in timers
  /\ ~EndMissing
  /\ LET i      == segmentIndexRef
         start  == route[i + 1]
         end    == route[i + 2]
         newPos == Interpolate(start, end, progressRef)
         rolled == progressRef + 1 >= StepsPerSegment
     IN  /\ currentPos' = newPos
         /\ visitedPath' = Append(visitedPath, newPos)
         /\ carRotation' = (getBearing(start, end) - 90 + 90) % 360
         /\ progressRef' = progressRef + 1
         /\ segmentIndexRef' = IF rolled THEN i + 1 ELSE i
         /\ currentIndex' = IF rolled THEN i + 1 ELSE currentIndex
         /\ distanceCovered' = IF rolled
                               THEN distanceCovered + getDistance(start, end) * 1000
                               ELSE distanceCovered
  /\ last' = Record("tick", NoArg)
  /\ resume' = IF resume.st = "resumed" THEN [resume EXCEPT !.st = "ticked"] ELSE NoResume
  /\ UNCHANGED << fetchState, mounted, route, isPlaying, speed, intervalRef,
                  timers, alerts >>

\* a tick that credits the segment's distance at every step
TickAdvanceCreditsEachTick(t) ==
  /\ t \in timers
  /\ ~EndMissing
  /\ LET i      == segmentIndexRef
         start  == route[i + 1]
         end    == route[i + 2]
         newPos == Interpolate(start, end, progressRef)
         rolled == progressRef + 1 >= StepsPerSegment
     IN  /\ currentPos' = newPos
         /\ visitedPath' = Append(visitedPath, newPos)
         /\ carRotation' = (getBearing(start, end) - 90 + 90) % 360
         /\ progressRef' = IF rolled THEN 0 ELSE progressRef + 1
         /\ segmentIndexRef' = IF rolled THEN i + 1 ELSE i
         /\ currentIndex' = IF rolled THEN i + 1 ELSE currentIndex
         /\ distanceCovered' = distanceCovered + getDistance(start, end) * 1000
  /\ last' = Record("tick", NoArg)
  /\ resume' = IF resume.st = "resumed" THEN [resume EXCEPT !.st = "ticked"] ELSE NoResume
  /\ UNCHANGED << fetchState, mounted, route, isPlaying, speed, intervalRef,
                  timers, alerts >>

\* a rollover one step late: progressRef.current > 1 on exact fiftieths
TickAdvanceLateRollover(t) ==
  /\ t \in timers
  /\ ~EndMissing
  /\ LET i      == segmentIndexRef
         start  == route[i + 1]
         end    == route[i + 2]
         newPos == Interpolate(start, end, progressRef)
         rolled == progressRef + 1 > StepsPerSegment
     IN  /\ currentPos' = newPos
         /\ visitedPath' = Append(visitedPath, newPos)
         /\ carRotation' = (getBearing(start, end) - 90 + 90) % 360
         /\ progressRef' = IF rolled THEN 0 ELSE progressRef + 1
         /\ segmentIndexRef' = IF rolled THEN i + 1 ELSE i
         /\ currentIndex' = IF rolled THEN i + 1 ELSE currentIndex
         /\ distanceCovered' = IF rolled
                               THEN distanceCovered + getDistance(start, end) * 1000
                               ELSE distanceCovered
  /\ last' = Record("tick", NoArg)
  /\ resume' = IF resume.st = "resumed" THEN [resume EXCEPT !.st = "ticked"] ELSE NoResume
  /\ UNCHANGED << fetchState, mounted, route, isPlaying, speed, intervalRef,
                  timers, alerts >>

\* a tick that keeps only the new position: setVisitedPath([newPos])
TickAdvanceReplacesPath(t) ==
  /\ t \in timers
  /\ ~EndMissing
  /\ LET i      == segmentIndexRef
         start  == route[i + 1]
         end    == route[i + 2]
         newPos == Interpolate(start, end, progressRef)
         rolled == progressRef + 1 >= StepsPerSegment
     IN  /\ currentPos' = newPos
         /\ visitedPath' = << newPos >>
         /\ carRotation' = (getBearing(start, end) - 90 + 90) % 360
         /\ progressRef' = IF rolled THEN 0 ELSE progressRef + 1
         /\ segmentIndexRef' = IF rolled THEN i + 1 ELSE i
         /\ currentIndex' = IF rolled THEN i + 1 ELSE currentIndex
         /\ distanceCovered' = IF rolled
                               THEN distanceCovered + getDistance(start, end) * 1000
                               ELSE distanceCovered
  /\ last' = Record("tick", NoArg)
  /\ resume' = IF resume.st = "resumed" THEN [resume EXCEPT !.st = "ticked"] ELSE NoResume
  /\ UNCHANGED << fetchState, mounted, route, isPlaying, speed, intervalRef,
                  timers, alerts >>

\* a tick that advances progressRef before it interpolates
TickAdvanceStepsFirst(t) ==
  /\ t \in timers
  /\ ~EndMissing
  /\ LET i      == segmentIndexRef
         start  == route[i + 1]
         end    == route[i + 2]
         newPos == Interpolate(start, end, progressRef + 1)
         rolled == progressRef + 1 >= StepsPerSegment
     IN  /\ currentPos' = newPos
         /\ visitedPath' = Append(visitedPath, newPos)
         /\ carRotation' = (getBearing(start, end) - 90 + 90) % 360
         /\ progressRef' = IF rolled THEN 0 ELSE progressRef + 1
         /\ segmentIndexRef' = IF rolled THEN i + 1 ELSE i
         /\ currentIndex' = IF rolled THEN i + 1 ELSE currentIndex
         /\ distanceCovered' = IF rolled
                               THEN distanceCovered + getDistance(start, end) * 1000
                               ELSE distanceCovered
  /\ last' = Record("tick", NoArg)
  /\ resume' = IF resume.st = "resumed" THEN [resume EXCEPT !.st = "ticked"] ELSE NoResume
  /\ UNCHANGED << fetchState, mounted, route, isPlaying, speed, intervalRef,
                  timers, alerts >>

\* the interval callback moves the car one step
TickAdvance(t) ==
  /\ t \in timers
  /\ ~EndMissing
  /\ LET i      == segmentIndexRef
         start  == route[i + 1]
         end    == route[i + 2]
         newPos == Interpolate(start, end, progressRef)
         rolled == progressRef + 1 >= StepsPerSegment
     IN  /\ currentPos' = newPos
         /\ visitedPath' = Append(visitedPath, newPos)
         /\ carRotation' = (getBearing(start, end) - 90 + 90) % 360
         /\ progressRef' = IF rolled THEN 0 ELSE progressRef + 1
         /\ segmentIndexRef' = IF rolled THEN i + 1 ELSE i
         /\ currentIndex' = IF rolled THEN i + 1 ELSE currentIndex
         /\ distanceCovered' = IF rolled
                               THEN distanceCovered + getDistance(start, end) * 1000
                               ELSE distanceCovered
  /\ last' = Record("tick", NoArg)
  /\ resume' = IF resume.st = "resumed" THEN [resume EXCEPT !.st = "ticked"] ELSE NoResume
  /\ UNCHANGED << fetchState, mounted, route, isPlaying, speed, intervalRef,
                  timers, alerts >>

Tick(t) == TickTerminal(t) \/ TickAdvance(t)

Next ==
  \/ \E data \in Documents : FetchResolve(data)
  \/ FetchReject
  \/ Play
  \/ Pause
  \/ Reset
  \/ \E raw \in RawValues : SetSpeed(raw)
  \/ \E t \in timers : TickTerminal(t)
  \/ \E t \in timers : TickAdvance(t)

Spec == Init /\ [][Next]_vars

\* no pause and no reset is ever issued; the browser keeps firing an
\* active interval
NextNoStop ==
  \/ \E data \in Documents : FetchResolve(data)
  \/ FetchReject
  \/ Play
  \/ \E raw \in RawValues : SetSpeed(raw)
  \/ \E t \in timers : TickTerminal(t)
  \/ \E t \in timers : TickAdvance(t)

LiveSpec ==
  Init /\ [][NextNoStop]_vars /\ WF_vars(\E t \in timers : Tick(t))

\* const progressPercent = Math.min(((currentIndex / (route.length - 1)) * 100)
\* .toFixed(1), 100), in tenths of a percent (toFixed(1) rounds to the nearest)
ProgressPercent(idx, rt) ==
  LET d == Len(rt) - 1
  IN  Min((2 * idx * 1000 + d) \div (2 * d), 1000)

\* route.reduce((sum, _, i) => i < route.length - 1
\*   ? sum + getDistance(route[i], route[i + 1]) : sum, 0) over the first n
\* segments; totalDistance takes them all
RECURSIVE SumDistance(_, _)
SumDistance(rt, n) ==
  IF n = 0 THEN 0
  ELSE SumDistance(rt, n - 1) + getDistance(rt[n], rt[n + 1])

totalDistance(rt) == SumDistance(rt, Len(rt) - 1)

\* a document of three waypoints, whose route has three segments
LongDocument == << <<0, 50>>, <<50, 0>>, <<0, 50>> >>

\* the component fed with the documents of Documents or with LongDocument
WideNext ==
  \/ \E data \in Documents \cup {LongDocument} : FetchResolve(data)
  \/ FetchReject
  \/ Play
  \/ Pause
  \/ Reset
  \/ \E raw \in RawValues : SetSpeed(raw)
  \/ \E t \in timers : TickTerminal(t)
  \/ \E t \in timers : TickAdvance(t)

WideSpec == Init /\ [][WideNext]_vars

(* ------------------------------ claims -------------------------------- *)
\* a route is loaded: at least one segment
Loaded == mounted /\ Len(route) >= 2

\* every segment has been traversed
AtEnd == Loaded /\ segmentIndexRef = Len(route) - 1

Last(seq) == seq[Len(seq)]

\* C1: the tick that finds segmentIndex+1 out of range leaves the engine
\* Stopped: isPlaying is false in the state after that tick.
C1_StoppedAfterTerminalTick ==
  last.op = "tickEnd" => ~isPlaying

\* C2: between two resets the completion alert is emitted at most once
\* (exactly once, once emitted), whatever play, pause and setSpeed commands
\* are issued.
C2_ExactlyOneAlert ==
  alerts <= 1

\* C3: play() issued at the end of the route is a no-op: isPlaying keeps
\* the value it had, no interval is scheduled and no alert is emitted.
C3_PlayAtEndNoOp ==
  (last.op = "play" /\ AtEnd) =>
     /\ isPlaying = last.playing
     /\ timers = {}

\* C4: when the engine is Playing and no pause or reset is issued, fair
\* ticking leads to the end of the route with the completion alert emitted,
\* and from then on no interval is scheduled.
C4_TerminatesAndStaysQuiet ==
  /\ (Loaded /\ isPlaying) ~> (AtEnd /\ alerts >= 1)
  /\ [][(AtEnd /\ alerts >= 1) => timers' = {}]_vars

\* C5: while isPlaying is false no interval is active, so no tick scheduled
\* before a pause or a reset can run and change segmentIndex, progress,
\* position, visited path or distance before the next play.
C5_NoTickWhileStopped ==
  ~isPlaying => timers = {}

C5_Witness ==
  /\ last.op = "pause"
  /\ ~isPlaying
  /\ progressRef > 0
  /\ intervalRef # Null

\* C6: pause leaves segmentIndex and progress unchanged, they stay so until
\* the first tick after the following play, and that tick interpolates on
\* the held segment at the held progress and advances from there.
C6_ResumeFromHeld ==
  /\ resume.st \in {"paused", "resumed"} =>
        /\ segmentIndexRef = resume.seg
        /\ progressRef = resume.prog
  /\ resume.st = "ticked" =>
        LET held == Interpolate(route[resume.seg + 1], route[resume.seg + 2], resume.prog)
        IN  /\ currentPos = held
            /\ Last(visitedPath) = held
            /\ segmentIndexRef * StepsPerSegment + progressRef
                 = resume.seg * StepsPerSegment + resume.prog + 1

C6_Witness ==
  /\ resume.st = "ticked"
  /\ resume.seg > 0
  /\ resume.prog > 0

\* C7: reset from any state with a loaded route gives the same state:
\* stopped, segment 0, progress 0, visited path [Route[0]], position
\* Route[0], distance 0, heading 0, no interval; the speed is left as it was.
C7_ResetFixedState ==
  [][Reset =>
       /\ ~isPlaying'
       /\ segmentIndexRef' = 0
       /\ progressRef' = 0
       /\ currentIndex' = 0
       /\ visitedPath' = << route[1] >>
       /\ currentPos' = route[1]
       /\ distanceCovered' = 0
       /\ carRotation' = 0
       /\ timers' = {}
       /\ speed' = speed
       /\ route' = route]_vars

C7_Witness ==
  /\ last.op = "reset"
  /\ last.playing
  /\ last.seg > 0
  /\ last.prog > 0
  /\ speed # InitialSpeed

\* C8: setSpeed changes only the speed: isPlaying, segmentIndex, progress,
\* position, visited path and distance are unchanged; every interval active
\* afterwards has period 50/m, and when the speed changed while the engine
\* is playing the old interval is replaced by exactly one new one.
C8_SetSpeedFrame ==
  [][(\E raw \in RawValues : SetSpeed(raw)) =>
       /\ UNCHANGED << isPlaying, segmentIndexRef, progressRef, currentIndex,
                       currentPos, visitedPath, distanceCovered >>
       /\ \A t \in timers' : t.period = Interval(speed')
       /\ (isPlaying /\ speed' # speed) =>
             /\ Cardinality(timers') = 1
             /\ timers' \cap timers = {}
       /\ speed' = speed => timers' = timers]_vars

C8_Witness ==
  /\ last.op = "setSpeed"
  /\ last.speed # speed
  /\ isPlaying
  /\ progressRef > 0
  /\ \E t \in timers : t.period = Interval(speed)

\* a value that is not a positive number
Invalid(raw) == ~raw.num \/ raw.val <= 0

\* C9 (as stated): a setSpeed command carrying a non-positive or
\* non-numeric value is rejected: the speed keeps its prior value.
C9_InvalidRejected ==
  (last.op = "setSpeed" /\ Invalid(last.arg)) => speed = last.speed

\* C9 (amended): no command brings the speed out of the slider's range
\* 0.5..5, so the speed is positive in every reachable state; a request
\* that is not a positive number is replaced by the slider (its minimum, or
\* its default for a text), not rejected.
C9_SpeedWithinSlider ==
  /\ speed \in SliderMin..SliderMax
  /\ speed > 0
  /\ (last.op = "setSpeed" /\ Invalid(last.arg)) =>
        speed = (IF last.arg.num THEN SliderMin ELSE (SliderMin + SliderMax + 1) \div 2)

C9_Witness ==
  /\ last.op = "setSpeed"
  /\ last.arg.num
  /\ last.arg.val <= 0
  /\ speed = SliderMin
  /\ last.speed # speed

\* C10 (as stated): with a loaded route segmentIndex is in [0, len-2] and
\* progress is in [0, 1).
C10_IndexBelowLastSegment ==
  Loaded =>
     /\ segmentIndexRef \in 0..(Len(route) - 2)
     /\ progressRef \in 0..(StepsPerSegment - 1)

\* C10 (amended): with a loaded route segmentIndex is in [0, len-1], the
\* value len-1 being held with progress 0 once the last segment is done,
\* and progress is in [0, 1).
C10_IndexWithinRoute ==
  Loaded =>
     /\ segmentIndexRef \in 0..(Len(route) - 1)
     /\ progressRef \in 0..(StepsPerSegment - 1)
     /\ AtEnd => progressRef = 0

C10_Witness ==
  /\ AtEnd
  /\ Len(route) >= 3
  /\ alerts >= 1

\* C11: a document of fewer than 2 waypoints is a failed load: the route
\* stays unloaded, the widget stays mounted in its loading state and
\* playback never starts.
C11_ShortDocumentFails ==
  (fetchState = "done" /\ Len(route) < 3) =>
     /\ route = << >>
     /\ mounted
     /\ ~isPlaying

\* C12: while the route is empty, isPlaying is false, no interval is active
\* and no playback value has moved, whether the fetch is pending or failed.
C12_NoPlayBeforeLoad ==
  Len(route) = 0 =>
     /\ ~isPlaying
     /\ timers = {}
     /\ segmentIndexRef = 0
     /\ progressRef = 0
     /\ visitedPath = << >>

C12_Witness ==
  /\ fetchState = "failed"
  /\ last.op = "loadFailed"
  /\ Len(route) = 0
  /\ ~isPlaying

\* C13: with a loaded route, every step other than a reset leaves
\* distanceCovered and progressPercent equal or larger.
C13_Monotone ==
  [][(Loaded /\ ~Reset) =>
       /\ distanceCovered' >= distanceCovered
       /\ ProgressPercent(currentIndex', route') >= ProgressPercent(currentIndex, route)]_vars

C13_Witness ==
  /\ last.op = "tickEnd"
  /\ distanceCovered > 0
  /\ ProgressPercent(currentIndex, route) = 1000

\* C14: loading a document of N >= 1 waypoints gives a route of length N+1
\* that keeps the waypoints in order in its first N places and ends with
\* its first element, with position = Route[0] and visited path [Route[0]];
\* a route once set is never changed by any later step.
C14_RoundTripRoute ==
  /\ [][\A data \in Documents :
          (Len(data) >= 1 /\ FetchResolve(data)) =>
             /\ Len(route') = Len(data) + 1
             /\ SubSeq(route', 1, Len(data)) = data
             /\ route'[Len(data) + 1] = route'[1]
             /\ currentPos' = route'[1]
             /\ visitedPath' = << route'[1] >>]_vars
  /\ [][route # << >> => route' = route]_vars

C14_Witness ==
  /\ Len(route) = 3
  /\ route[1] # route[2]
  /\ route[3] = route[1]
  /\ last.op = "tick"
  /\ segmentIndexRef = 1

\* C15: with a loaded route distanceCovered is 1000 times the sum of the
\* distances of the segments before segmentIndex: 0 in segment 0, the total
\* route distance at the end.
C15_DistanceOfCompletedSegments ==
  Loaded =>
     /\ distanceCovered = 1000 * SumDistance(route, segmentIndexRef)
     /\ segmentIndexRef = 0 => distanceCovered = 0
     /\ AtEnd => distanceCovered = 1000 * totalDistance(route)

C15_Witness ==
  /\ AtEnd
  /\ Len(route) = 3
  /\ distanceCovered > 0
  /\ distanceCovered = 2 * 1000 * getDistance(route[1], route[2])

\* the number of non-terminal ticks since the last reset (or the load):
\* each of them appended one element to the visited path
Ticks == Len(visitedPath) - 1

\* C16 (as stated): after 50*k non-terminal ticks since the last reset,
\* segmentIndex = k, progress = 0 and progressPercent is exactly
\* min(100, k / (len-1) * 100).
C16_ExactPercent ==
  (Loaded /\ Ticks % StepsPerSegment = 0) =>
     LET k == Ticks \div StepsPerSegment
     IN  /\ k <= Len(route) - 1
         /\ segmentIndexRef = k
         /\ progressRef = 0
         /\ ProgressPercent(currentIndex, route) * (Len(route) - 1) = k * 1000

\* C16 (amended): after 50*k non-terminal ticks since the last reset,
\* segmentIndex = k, progress = 0 and progressPercent is
\* min(100, k / (len-1) * 100) rounded to one decimal; on a 2-segment route
\* 50 ticks give segmentIndex 1 and progressPercent 50.0.
C16_RoundedPercent ==
  /\ (Loaded /\ Ticks % StepsPerSegment = 0) =>
        LET k == Ticks \div StepsPerSegment
        IN  /\ k <= Len(route) - 1
            /\ segmentIndexRef = k
            /\ progressRef = 0
            /\ currentIndex = k
            /\ ProgressPercent(currentIndex, route)
                 = Min(1000, (2 * k * 1000 + (Len(route) - 1)) \div (2 * (Len(route) - 1)))
  /\ (Loaded /\ Len(route) = 3 /\ Ticks = StepsPerSegment) =>
        /\ segmentIndexRef = 1
        /\ ProgressPercent(currentIndex, route) = 500

C16_Witness ==
  /\ Loaded
  /\ Len(route) = 4
  /\ Ticks = StepsPerSegment
  /\ segmentIndexRef = 1
  /\ ProgressPercent(currentIndex, route) = 333

\* C17: the visited path is append-only between resets: a non-terminal tick
\* appends exactly the position it interpolated and keeps the prefix, a
\* reset replaces the path by [Route[0]], every other step leaves it alone;
\* its last element is always the current position.
C17_AppendOnlyPath ==
  /\ [](Loaded => visitedPath[Len(visitedPath)] = currentPos)
  /\ [][Loaded =>
          CASE (\E t \in timers : TickAdvance(t)) ->
                  /\ Len(visitedPath') = Len(visitedPath) + 1
                  /\ SubSeq(visitedPath', 1, Len(visitedPath)) = visitedPath
                  /\ visitedPath'[Len(visitedPath')]
                       = Interpolate(route[segmentIndexRef + 1],
                                     route[segmentIndexRef + 2], progressRef)
            [] Reset -> visitedPath' = << route[1] >>
            [] OTHER -> visitedPath' = visitedPath]_vars

C17_Witness ==
  /\ last.op = "tick"
  /\ Len(visitedPath) > StepsPerSegment + 2
  /\ visitedPath[1] = route[1]
  /\ visitedPath[Len(visitedPath)] = currentPos
  /\ visitedPath[Len(visitedPath)] # visitedPath[Len(visitedPath) - 1]

\* C18: at most one interval is active at any time, and it is the one whose
\* id intervalRef holds.
C18_SingleTimer ==
  /\ Cardinality(timers) <= 1
  /\ \A t \in timers : t.id = intervalRef

C18_Witness ==
  /\ Cardinality(timers) = 1
  /\ intervalRef = 2
  /\ \A t \in timers : t.id = 2
  /\ last.op = "setSpeed"
  /\ last.speed # speed

\* the point at fraction 49/50 of the last segment
LastEmitted ==
  Interpolate(route[Len(route) - 1], route[Len(route)], StepsPerSegment - 1)

\* C19 (as stated): a tick emits the interpolation at the progress held
\* before its advance, a fraction k/50 with k in 0..49; at the end of the
\* route the position and the last element of the visited path are the
\* point at 49/50 of the last segment and not the closing waypoint.
C19_NeverClosingWaypoint ==
  /\ last.op = "tick" =>
        /\ last.prog \in 0..(StepsPerSegment - 1)
        /\ currentPos = Interpolate(route[last.seg + 1], route[last.seg + 2], last.prog)
  /\ AtEnd =>
        /\ currentPos = LastEmitted
        /\ visitedPath[Len(visitedPath)] = LastEmitted
        /\ currentPos # route[Len(route)]

\* C19 (amended): as stated, except that the position at the end differs
\* from the closing waypoint only when the last segment's end points differ.
C19_EmitsBeforeAdvance ==
  /\ last.op = "tick" =>
        /\ last.prog \in 0..(StepsPerSegment - 1)
        /\ currentPos = Interpolate(route[last.seg + 1], route[last.seg + 2], last.prog)
  /\ AtEnd =>
        /\ currentPos = LastEmitted
        /\ visitedPath[Len(visitedPath)] = LastEmitted
        /\ route[Len(route) - 1] # route[Len(route)] => currentPos # route[Len(route)]

C19_Witness ==
  /\ AtEnd
  /\ alerts >= 1
  /\ route[Len(route) - 1] # route[Len(route)]
  /\ currentPos = LastEmitted
  /\ currentPos # route[Len(route)]

\* C20: the terminal tick leaves segmentIndex, progress, position, visited
\* path, distance and heading as they are; it clears the interval and
\* emits one completion alert.
C20_TerminalTickFrame ==
  [][(\E t \in timers : TickTerminal(t)) =>
       /\ UNCHANGED << segmentIndexRef, progressRef, currentIndex, currentPos,
                       visitedPath, distanceCovered, carRotation, isPlaying, speed >>
       /\ timers' = {}
       /\ alerts' = Min(alerts + 1, MaxAlerts)]_vars

C20_Witness ==
  /\ last.op = "tickEnd"
  /\ alerts = 1
  /\ timers = {}
  /\ Len(visitedPath) = StepsPerSegment * (Len(route) - 1) + 1

====
